---- MODULE Spec2Model ----
(***************************************************************************)
(* Piece-table editor core of vis (src/editor.c): pieces linked into the   *)
(* logical sequence between two sentinels, the span swap primitive, the    *)
(* insert / delete / replace edits, and the undo / redo stacks of Actions. *)
(*                                                                         *)
(* Heap objects are modelled by their addresses: a Piece is its index in   *)
(* the sequence ed.pieces (the sentinels are 1 and 2, as their index field *)
(* in editor_load), an Action is its index in ed.actions.  A char pointer  *)
(* is a 1-based offset into ed.mem, the bytes of the mapped file followed  *)
(* by the bytes appended by buffer_store.  NULL is 0.                      *)
(*                                                                         *)
(* size_t values stay small here except ed.size, which span_swap can wrap  *)
(* below zero: a negative ed.size n stands for the size_t value 2^64 + n,  *)
(* and the unsigned comparisons of the code go through SizeGT.             *)
(***************************************************************************)
EXTENDS Integers, Sequences, FiniteSets, TLC

NULL == 0
Begin == 1
End == 2
\* piece_get could not return (the next chain loops)
HANG == -1

\* ------------------------------------------------------------ bounds
\* number of API calls made on the editor after editor_load
MaxOps == 4
\* number of edits a caller makes before it starts to undo
MaxEdits == 3
\* length of the longest file given to editor_load
MaxFile == 2

\* the files editor_load is given: no file name, or a regular file
FileBytes == <<"a", "b", "c", "d">>
Files == {SubSeq(FileBytes, 1, n) : n \in {0, MaxFile}}
\* the strings given to editor_insert and editor_replace
Texts == {<<"x">>, <<"y", "z">>}

VARIABLES
  ed,      \* struct Editor, with the heap objects it owns
  ops,     \* number of API calls made so far
  last,    \* the last API call: its name, arguments and the editor before it
  base,    \* per Action address: the document when action_alloc opened it
  pc,      \* the caller's position in its sequence of calls
  post     \* the document and size the caller recorded after its edits

vars == <<ed, ops, last, base, pc, post>>

\* ------------------------------------------------------------ helpers
\* F applied to the value of x: the statement sequence "x; F"
Then(x, F(_)) == CHOOSE r \in {F(v) : v \in {x}} : TRUE

Range(s) == {s[i] : i \in DOMAIN s}

Piece(prev, next, content, len) ==
  [prev |-> prev, next |-> next, content |-> content, len |-> len]

Span(start, end, len) == [start |-> start, end |-> end, len |-> len]

\* a calloc-ed Change
ZeroChange == [old |-> Span(NULL, NULL, 0), new |-> Span(NULL, NULL, 0)]

\* unsigned a > b on size_t, where a negative number n stands for 2^64 + n
SizeGT(a, b) ==
  IF (a < 0) = (b < 0) THEN a > b ELSE a < 0

\* a dereference of the pieces in S: undefined once one of them was freed
Touch(e, S) == [e EXCEPT !.uaf = @ \/ (S \cap e.freed # {})]

Fault(e, what) == [e EXCEPT !.fault = what]

\* the bytes a piece refers to
PieceBytes(e, p) ==
  IF e.pieces[p].len = 0 THEN <<>>
  ELSE SubSeq(e.mem, e.pieces[p].content, e.pieces[p].content + e.pieces[p].len - 1)

\* the pieces reached from p by following next, as editor_debug walks them
RECURSIVE ChainFrom(_, _, _)
ChainFrom(P, p, fuel) ==
  IF p = NULL \/ fuel = 0 THEN <<>>
  ELSE <<p>> \o ChainFrom(P, P[p].next, fuel - 1)

Chain(e) == ChainFrom(e.pieces, Begin, Len(e.pieces))

\* the pieces reached from p by following prev
RECURSIVE BackFrom(_, _, _)
BackFrom(P, p, fuel) ==
  IF p = NULL \/ fuel = 0 THEN <<>>
  ELSE <<p>> \o BackFrom(P, P[p].prev, fuel - 1)

RECURSIVE Concat(_, _)
Concat(e, ps) ==
  IF ps = <<>> THEN <<>> ELSE PieceBytes(e, Head(ps)) \o Concat(e, Tail(ps))

\* the document: the bytes of the pieces from begin to end
Doc(e) == Concat(e, Chain(e))

\* ------------------------------------------------------------ pieces
\* the piece piece_alloc returns next
NewPiece(e) == Len(e.pieces) + 1

piece_alloc(e) == [e EXCEPT !.pieces = Append(@, Piece(NULL, NULL, NULL, 0))]

piece_init(e, p, prev, next, content, len) ==
  IF e.fault # "none" THEN e
  ELSE IF p = NULL THEN Fault(e, "segv")
  ELSE [e EXCEPT !.pieces[p] = Piece(prev, next, content, len),
                 !.uaf = @ \/ p \in e.freed]

RECURSIVE piece_walk(_, _, _, _, _)
piece_walk(P, p, cur, pos, fuel) ==
  IF fuel = 0 THEN [piece |-> HANG, off |-> 0, seen |-> {}]
  ELSE IF P[p].next = NULL THEN [piece |-> NULL, off |-> 0, seen |-> {p}]
  ELSE IF cur <= pos /\ pos <= cur + P[p].len
    THEN [piece |-> p, off |-> pos - cur, seen |-> {p}]
  ELSE Then(piece_walk(P, P[p].next, cur + P[p].len, pos, fuel - 1),
            LAMBDA r : [r EXCEPT !.seen = @ \cup {p}])

\* piece_get with the search started at begin.next, the first data piece: C18
\* does not hold of it
piece_get_from_first(e, pos) ==
  piece_walk(e.pieces, e.pieces[Begin].next, 0, pos, Len(e.pieces) + 1)

\* Location of pos, with the pieces the search read
piece_get(e, pos) == piece_walk(e.pieces, Begin, 0, pos, Len(e.pieces) + 1)

\* ------------------------------------------------------------ spans
RECURSIVE span_len(_, _, _, _)
span_len(P, p, end, fuel) ==
  IF p = NULL \/ fuel = 0 THEN 0
  ELSE P[p].len + (IF p = end THEN 0 ELSE span_len(P, P[p].next, end, fuel - 1))

span_init(e, start, end) ==
  Span(start, end, span_len(e.pieces, start, end, Len(e.pieces)))

\* q->prev->next = v
SetPrevNext(e, q, v) ==
  IF e.fault # "none" THEN e
  ELSE IF q = NULL \/ e.pieces[q].prev = NULL THEN Fault(e, "segv")
  ELSE [e EXCEPT !.pieces[e.pieces[q].prev].next = v,
                 !.uaf = @ \/ ({q, e.pieces[q].prev} \cap e.freed # {})]

\* q->next->prev = v
SetNextPrev(e, q, v) ==
  IF e.fault # "none" THEN e
  ELSE IF q = NULL \/ e.pieces[q].next = NULL THEN Fault(e, "segv")
  ELSE [e EXCEPT !.pieces[e.pieces[q].next].prev = v,
                 !.uaf = @ \/ ({q, e.pieces[q].next} \cap e.freed # {})]

\* p->next and p->prev for the right-hand sides, NULL when p cannot be read
NextOf(e, p) == IF p = NULL THEN NULL ELSE e.pieces[p].next
PrevOf(e, p) == IF p = NULL THEN NULL ELSE e.pieces[p].prev

\* the two assignments of span_swap that relink the sequence
span_link(e, old, new) ==
  IF old.len = 0 THEN
    \* insert new span
    Then(SetPrevNext(e, new.start, new.start),
         LAMBDA e1 : SetNextPrev(e1, new.end, new.end))
  ELSE IF new.len = 0 THEN
    \* delete old span
    IF old.end = NULL THEN Fault(e, "segv")
    ELSE Then(SetPrevNext(Touch(e, {old.end}), old.start, NextOf(e, old.end)),
              LAMBDA e1 : SetNextPrev(Touch(e1, {old.start}), old.end,
                                      PrevOf(e1, old.start)))
  ELSE
    \* replace old with new
    Then(SetPrevNext(e, old.start, new.start),
         LAMBDA e1 : SetNextPrev(e1, old.end, new.end))

\* span_swap without the subtraction of old.len from the size: C7 does not
\* hold of it
span_swap_keeps_old_len(e, old, new) ==
  IF e.fault # "none" THEN e
  ELSE IF old.len = 0 /\ new.len = 0 THEN e
  ELSE Then(span_link(e, old, new),
            LAMBDA e1 : IF e1.fault # "none" THEN e1
                        ELSE [e1 EXCEPT !.size = @ + new.len])

span_swap(e, old, new) ==
  IF e.fault # "none" THEN e
  ELSE IF old.len = 0 /\ new.len = 0 THEN e
  ELSE Then(span_link(e, old, new),
            LAMBDA e1 : IF e1.fault # "none" THEN e1
                        ELSE [e1 EXCEPT !.size = @ - old.len + new.len])

\* ------------------------------------------------------------ history
\* the top of a stack of Actions (NULL when it is empty)
Top(stack) == IF stack = <<>> THEN NULL ELSE Head(stack)

\* the pieces change_free frees: the two ends of the new span
ChangeFrees(c) == {c.new.start, c.new.end} \ {NULL}

\* the pieces action_free frees
ActionFrees(a) == UNION {ChangeFrees(a.change[i]) : i \in DOMAIN a.change}

\* the addresses calloc may return for a new Action: a fresh one, or one freed
\* earlier (saved_action may still hold it)
ActionAddrs(e) == {Len(e.actions) + 1} \cup e.afreed

\* new is the address calloc returned
action_alloc(e, new) ==
  [e EXCEPT !.actions = IF new = Len(@) + 1 THEN Append(@, [change |-> <<>>])
                        ELSE [@ EXCEPT ![new] = [change |-> <<>>]],
            !.afreed = (@ \ {new}) \cup Range(e.redo),
            !.freed = @ \cup UNION {ActionFrees(e.actions[e.redo[i]]) : i \in DOMAIN e.redo},
            !.redo = <<>>,
            !.current_action = new,
            !.undo = <<new>> \o @]

\* the new Change is the head of the current Action's list
change_alloc(e, new) ==
  Then(IF e.current_action = NULL THEN action_alloc(e, new) ELSE e,
       LAMBDA e1 : [e1 EXCEPT !.actions[e1.current_action].change = <<ZeroChange>> \o @])

\* c->old and c->new of the Change change_alloc returned
SetChange(e, old, new) ==
  IF e.fault # "none" THEN e
  ELSE [e EXCEPT !.actions[e.current_action].change[1] = [old |-> old, new |-> new]]

\* the end of editor_insert and editor_delete: both spans, then the swap
record_swap(e, old_start, old_end, new_start, new_end) ==
  IF e.fault # "none" THEN e
  ELSE Then(<<span_init(e, old_start, old_end), span_init(e, new_start, new_end)>>,
            LAMBDA c : Then(SetChange(e, c[1], c[2]),
                            LAMBDA e1 : span_swap(e1, c[1], c[2])))

\* ------------------------------------------------------------ buffers
\* the address buffer_store returns for the next text
StoreAddr(e) == Len(e.mem) + 1

buffer_store(e, text) == [e EXCEPT !.mem = @ \o text]

\* ------------------------------------------------------------ insert
\* editor_insert_empty with prev and next of begin exchanged: C16 does not
\* hold of it
insert_empty_begin_swapped(e, content, len) ==
  Then(piece_alloc(e), LAMBDA e1 :
  Then(piece_init(e1, Begin, NewPiece(e), NULL, NULL, 0), LAMBDA e2 :
  Then(piece_init(e2, NewPiece(e), Begin, End, content, len), LAMBDA e3 :
  Then(piece_init(e3, End, NewPiece(e), NULL, NULL, 0), LAMBDA e4 :
       [e4 EXCEPT !.size = len]))))

editor_insert_empty(e, content, len) ==
  Then(piece_alloc(e), LAMBDA e1 :
  Then(piece_init(e1, Begin, NULL, NewPiece(e), NULL, 0), LAMBDA e2 :
  Then(piece_init(e2, NewPiece(e), Begin, End, content, len), LAMBDA e3 :
  Then(piece_init(e3, End, NewPiece(e), NULL, NULL, 0), LAMBDA e4 :
       [e4 EXCEPT !.size = len]))))

\* insert between two existing pieces
insert_boundary(e, p, text, len) ==
  Then(piece_init(piece_alloc(e), NewPiece(e), p, e.pieces[p].next, text, len),
       LAMBDA e1 : record_swap(e1, NULL, NULL, NewPiece(e), NewPiece(e)))

\* insert into the middle of an existing piece: before, new, after
insert_split(e, p, off, text, len) ==
  Then(piece_alloc(piece_alloc(piece_alloc(e))), LAMBDA e1 :
  Then(piece_init(e1, NewPiece(e), e.pieces[p].prev, NewPiece(e) + 1,
                  e.pieces[p].content, off), LAMBDA e2 :
  Then(piece_init(e2, NewPiece(e) + 1, NewPiece(e), NewPiece(e) + 2, text, len),
       LAMBDA e3 :
  Then(piece_init(e3, NewPiece(e) + 2, NewPiece(e) + 1, e.pieces[p].next,
                  e.pieces[p].content + off, e.pieces[p].len - off), LAMBDA e4 :
       record_swap(e4, p, p, NewPiece(e), NewPiece(e) + 2)))))

\* editor_insert once the text is stored at address text
insert_at(e, pos, text, len) ==
  IF e.size = 0 THEN
    \* special case for an empty document
    Then(editor_insert_empty(e, text, len), LAMBDA e1 :
         SetChange(e1, span_init(e1, NULL, NULL),
                   span_init(e1, NewPiece(e), NewPiece(e))))
  ELSE
    Then(piece_get(e, pos), LAMBDA loc :
      IF loc.piece = HANG THEN Fault(e, "hang")
      ELSE IF loc.piece = NULL THEN Fault(e, "segv")
      ELSE Then(Touch(e, loc.seen), LAMBDA e1 :
             IF loc.off = e1.pieces[loc.piece].len
             THEN insert_boundary(e1, loc.piece, text, len)
             ELSE insert_split(e1, loc.piece, loc.off, text, len)))

\* aaddr: the address calloc returns if the call opens an Action
editor_insert(e, pos, str, aaddr) ==
  Then(change_alloc(e, aaddr), LAMBDA e1 :
  Then(insert_at(buffer_store(e1, str), pos, StoreAddr(e1), Len(str)), LAMBDA e2 :
       IF e2.fault # "none" THEN e2 ELSE [e2 EXCEPT !.ret = 1]))

\* ------------------------------------------------------------ delete
\* skip all pieces which fall into deletion range
RECURSIVE delete_skip(_, _, _, _, _)
delete_skip(P, p, cur, len, fuel) ==
  IF ~(cur < len) THEN [piece |-> p, cur |-> cur, seen |-> {p}]
  ELSE IF fuel = 0 THEN [piece |-> HANG, cur |-> cur, seen |-> {p}]
  ELSE IF P[p].next = NULL THEN [piece |-> NULL, cur |-> cur, seen |-> {p}]
  ELSE Then(delete_skip(P, P[p].next, cur + P[P[p].next].len, len, fuel - 1),
            LAMBDA r : [r EXCEPT !.seen = @ \cup {p}])

\* the end of the deletion: q is the last piece of the range, cur the bytes
\* skipped up to its end
delete_end(e, start, before, off, midway_start, q, cur, len) ==
  Then(IF cur = len THEN e
       ELSE \* deletion stops midway through a piece
            piece_init(piece_alloc(e), NewPiece(e), before, e.pieces[q].next,
                       e.pieces[q].content + e.pieces[q].len - (cur - len),
                       cur - len), LAMBDA e1 :
  Then(IF cur = len THEN e.pieces[q].next ELSE NewPiece(e), LAMBDA after :
  Then(IF ~midway_start THEN e1
       ELSE IF start = NULL THEN Fault(e1, "segv")
       ELSE \* we finally know which piece follows the newly allocated before piece
            piece_init(Touch(e1, {start}), before, e1.pieces[start].prev, after,
                       e1.pieces[start].content, off), LAMBDA e2 :
       record_swap(e2, start, q,
                   IF midway_start THEN before
                   ELSE IF cur # len THEN after ELSE NULL,
                   IF cur # len THEN after
                   ELSE IF midway_start THEN before ELSE NULL))))

\* the body of editor_delete after change_alloc: p, off locate pos
delete_span(e, p, off, len) ==
  Then(off # e.pieces[p].len, LAMBDA midway_start :
  Then(IF midway_start THEN piece_alloc(e) ELSE e, LAMBDA e1 :
  Then(delete_skip(e1.pieces, p,
                   IF midway_start THEN e.pieces[p].len - off ELSE 0,
                   len, (len + 1) * (Len(e1.pieces) + 1)), LAMBDA r :
       IF r.piece = HANG THEN Fault(e1, "hang")
       ELSE IF r.piece = NULL THEN Fault(e1, "segv")
       ELSE delete_end(Touch(e1, r.seen),
                       IF midway_start THEN p ELSE e.pieces[p].next,
                       IF midway_start THEN NewPiece(e) ELSE p,
                       off, midway_start, r.piece, r.cur, len))))

editor_delete(e, pos, len, aaddr) ==
  IF len = 0 THEN [e EXCEPT !.ret = 1]
  ELSE IF SizeGT(pos + len, e.size) THEN [e EXCEPT !.ret = 0]
  ELSE
    Then(piece_get(e, pos), LAMBDA loc :
      IF loc.piece = HANG THEN Fault(e, "hang")
      ELSE Then(change_alloc(Touch(e, loc.seen), aaddr), LAMBDA e1 :
             IF loc.piece = NULL THEN Fault(e1, "segv")
             ELSE Then(delete_span(Touch(e1, {loc.piece}), loc.piece, loc.off, len),
                       LAMBDA e2 : IF e2.fault # "none" THEN e2
                                   ELSE [e2 EXCEPT !.ret = 1])))

\* ------------------------------------------------------------ out of memory
\* the allocations of an edit that may return NULL and make it return false
AllocFails == {"action", "change", "buffer", "piece"}

\* editor_insert when the allocation `failing` returns NULL: the calloc of
\* action_alloc, the calloc of change_alloc, the buffer_alloc of buffer_store,
\* or one piece_alloc (of three in the split case: the other two succeed)
insert_enomem(e, pos, str, aaddr, failing) ==
  IF failing = "action" THEN [e EXCEPT !.ret = 0]
  ELSE IF failing = "change"
    THEN [(IF e.current_action = NULL THEN action_alloc(e, aaddr) ELSE e)
            EXCEPT !.ret = 0]
  ELSE Then(change_alloc(e, aaddr), LAMBDA e1 :
    IF failing = "buffer" THEN [e1 EXCEPT !.ret = 0]
    ELSE Then(buffer_store(e1, str), LAMBDA e2 :
      IF e2.size = 0 THEN [e2 EXCEPT !.ret = 0]
      ELSE Then(piece_get(e2, pos), LAMBDA loc :
        IF loc.piece = HANG THEN Fault(e, "hang")
        ELSE IF loc.piece = NULL THEN Fault(e, "segv")
        ELSE Then(Touch(e2, loc.seen), LAMBDA e3 :
          IF loc.off = e3.pieces[loc.piece].len THEN [e3 EXCEPT !.ret = 0]
          ELSE [piece_alloc(piece_alloc(e3)) EXCEPT !.ret = 0]))))

\* the allocations of editor_insert(e, ...) that can fail: action_alloc runs
\* only without a current Action, buffer_alloc surely when nothing was stored
EnomemOfInsert(e) ==
  {f \in AllocFails : /\ (f = "action" => e.current_action = NULL)
                      /\ (f = "buffer" => e.actions = <<>>)}

\* editor_delete when the calloc of action_alloc or of change_alloc fails
delete_enomem(e, pos, len, aaddr, failing) ==
  IF len = 0 THEN [e EXCEPT !.ret = 1]
  ELSE IF SizeGT(pos + len, e.size) THEN [e EXCEPT !.ret = 0]
  ELSE
    Then(piece_get(e, pos), LAMBDA loc :
      IF loc.piece = HANG THEN Fault(e, "hang")
      ELSE Then(Touch(e, loc.seen), LAMBDA e1 :
        IF failing = "change" /\ e1.current_action = NULL
        THEN [action_alloc(e1, aaddr) EXCEPT !.ret = 0]
        ELSE [e1 EXCEPT !.ret = 0]))

EnomemOfDelete(e) ==
  {f \in {"action", "change"} : f = "action" => e.current_action = NULL}

\* ------------------------------------------------------------ replace
editor_replace(e, pos, str, aaddr) ==
  Then(editor_delete(e, pos, Len(str), aaddr), LAMBDA e1 :
    IF e1.fault # "none" THEN e1
    ELSE Then(editor_insert(e1, pos, str, aaddr), LAMBDA e2 :
           IF e2.fault # "none" THEN e2 ELSE [e2 EXCEPT !.ret = 1]))

\* ------------------------------------------------------------ undo, redo
\* the Changes of an Action reversed oldest first: C3 does not hold of it
RECURSIVE undo_oldest_first(_, _)
undo_oldest_first(e, cs) ==
  IF cs = <<>> THEN e
  ELSE Then(span_swap(e, cs[Len(cs)].new, cs[Len(cs)].old),
            LAMBDA e1 : undo_oldest_first(e1, SubSeq(cs, 1, Len(cs) - 1)))

RECURSIVE undo_changes(_, _)
undo_changes(e, cs) ==
  IF cs = <<>> THEN e
  ELSE Then(span_swap(e, Head(cs).new, Head(cs).old),
            LAMBDA e1 : undo_changes(e1, Tail(cs)))

RECURSIVE redo_changes(_, _)
redo_changes(e, cs) ==
  IF cs = <<>> THEN e
  ELSE Then(span_swap(e, Head(cs).old, Head(cs).new),
            LAMBDA e1 : redo_changes(e1, Tail(cs)))

editor_undo(e) ==
  IF e.undo = <<>> THEN [e EXCEPT !.ret = 0]
  ELSE Then(undo_changes([e EXCEPT !.undo = Tail(@)], e.actions[Head(e.undo)].change),
            LAMBDA e1 : IF e1.fault # "none" THEN e1
                        ELSE [e1 EXCEPT !.redo = <<Head(e.undo)>> \o @, !.ret = 1])

editor_redo(e) ==
  IF e.redo = <<>> THEN [e EXCEPT !.ret = 0]
  ELSE Then(redo_changes([e EXCEPT !.redo = Tail(@)], e.actions[Head(e.redo)].change),
            LAMBDA e1 : IF e1.fault # "none" THEN e1
                        ELSE [e1 EXCEPT !.undo = <<Head(e.redo)>> \o @, !.ret = 1])

\* ------------------------------------------------------------ snapshot, save
editor_snapshot(e) == [e EXCEPT !.current_action = NULL]

\* the system calls of editor_save, in the order it makes them
SaveSteps(e) ==
  IF e.size = 0 THEN {"open", "ftruncate", "close", "rename"}
  ELSE {"open", "ftruncate", "mmap", "munmap", "close", "rename"}

\* failed: the system call that fails, "none" when all succeed
editor_save(e, failed) ==
  IF failed # "none" THEN [e EXCEPT !.ret = -1]
  ELSE [editor_snapshot([e EXCEPT !.saved_action = Top(e.undo)]) EXCEPT !.ret = -1]

editor_modified(e) == e.saved_action # Top(e.undo)

\* the system calls of editor_save in program order
SaveOrder(e) ==
  IF e.size = 0 THEN <<"open", "ftruncate", "close", "rename">>
  ELSE <<"open", "ftruncate", "mmap", "munmap", "close", "rename">>

\* the system calls editor_save makes when `failed` fails: those up to the
\* failing one, then the close(fd) after the label err, which is reached by
\* goto from ftruncate, mmap and munmap and by falling through at the end
save_calls(e, failed) ==
  Then(IF failed = "none" THEN Len(SaveOrder(e))
       ELSE CHOOSE i \in DOMAIN SaveOrder(e) : SaveOrder(e)[i] = failed,
       LAMBDA n : SubSeq(SaveOrder(e), 1, n) \o
                  (IF failed \in {"open", "close", "rename"} THEN <<>>
                   ELSE <<"close">>))

\* ------------------------------------------------------------ load
\* the Editor calloc returns, with the two sentinels linked
EmptyEditor ==
  [mem |-> <<>>, buf |-> [content |-> NULL, size |-> 0],
   pieces |-> <<Piece(NULL, End, NULL, 0), Piece(Begin, NULL, NULL, 0)>>,
   freed |-> {}, size |-> 0,
   actions |-> <<>>, afreed |-> {},
   undo |-> <<>>, redo |-> <<>>,
   current_action |-> NULL, saved_action |-> NULL,
   fault |-> "none", uaf |-> FALSE, ret |-> 0]

\* file = <<>>: no file name given
editor_load(file) ==
  IF file = <<>> THEN EmptyEditor
  ELSE editor_insert_empty(
         [EmptyEditor EXCEPT !.mem = file, !.buf = [content |-> 1, size |-> Len(file)]],
         1, Len(file))

\* ------------------------------------------------------------ iterate
\* the calls of the callback from piece p on: pos, content, len of each
RECURSIVE iterate_from(_, _, _, _, _, _)
iterate_from(P, p, pos, content, len, fuel) ==
  IF fuel = 0 THEN <<>>
  ELSE <<[pos |-> pos, content |-> content, len |-> len]>> \o
       (IF P[p].next = NULL THEN <<>>
        ELSE iterate_from(P, P[p].next, pos + len, P[P[p].next].content,
                          P[P[p].next].len, fuel - 1))

\* the calls editor_iterate makes of a callback that returns true for its
\* first `more` calls and false then
editor_iterate(e, pos, more) ==
  Then(piece_get(e, pos), LAMBDA loc :
    IF loc.piece = NULL \/ loc.piece = HANG THEN <<>>
    ELSE Then(iterate_from(e.pieces, loc.piece, pos,
                           e.pieces[loc.piece].content + loc.off,
                           e.pieces[loc.piece].len - loc.off, Len(e.pieces)),
              LAMBDA all : SubSeq(all, 1, IF more + 1 < Len(all) THEN more + 1
                                          ELSE Len(all))))

\* ------------------------------------------------------------ the API calls
\* What a call leaves behind.  A call that read a freed piece either went on
\* with the stale bytes or was killed; a killed or hung call leaves the editor
\* as it was, marked with the fault.
Outcomes(e, r) ==
  IF r.fault # "none" THEN {Fault(e, r.fault)}
  ELSE IF r.uaf THEN {[r EXCEPT !.uaf = FALSE], Fault(e, "segv")}
  ELSE {r}

\* the positions a caller may pass: 0 .. size
Positions(e) == 0 .. (IF e.size < 0 THEN Len(Doc(e)) ELSE e.size)

\* saved: editor_save has succeeded in this call or an earlier one
Record(op, pos, str, len) ==
  [op |-> op, pos |-> pos, str |-> str, len |-> len,
   doc |-> Doc(ed), size |-> ed.size, undo |-> ed.undo, redo |-> ed.redo,
   current_action |-> ed.current_action,
   saved |-> (last.saved \/ op = "save")]

\* the call r = f(ed) is made
Call(r, op, pos, str, len) ==
  /\ ed.fault = "none"
  /\ \E o \in Outcomes(ed, r) : ed' = o
  /\ ops' = ops + 1
  /\ last' = Record(op, pos, str, len)
  /\ base' = IF r.fault = "none" /\ Top(r.undo) # NULL /\ r.undo # ed.undo
                /\ Len(r.undo) = Len(ed.undo) + 1 /\ ed.current_action = NULL
             THEN [a \in DOMAIN r.actions |->
                     IF a = Head(r.undo) THEN Doc(ed) ELSE base[a]]
             ELSE base

\* the addresses calloc may return when a call opens an Action
Addrs(e) == IF e.current_action = NULL THEN ActionAddrs(e) ELSE {NULL}

InsertOf(strings) ==
  \E pos \in Positions(ed), str \in strings, a \in Addrs(ed) :
    \E r \in {editor_insert(ed, pos, str, a)} :
      Call(r, "insert", pos, str, Len(str))

Insert == InsertOf(Texts)

\* with the empty string as well
InsertAny == InsertOf(Texts \cup {<<>>})

\* every range inside the document, len = 0, and the ranges one byte too long
Delete ==
  \E pos \in Positions(ed) :
    \E len \in 0 .. (Len(Doc(ed)) - pos + 1), a \in Addrs(ed) :
      \E r \in {editor_delete(ed, pos, len, a)} :
        Call(r, "delete", pos, <<>>, len)

Replace ==
  \E pos \in Positions(ed), str \in Texts, a \in Addrs(ed) :
    \E r \in {editor_replace(ed, pos, str, a)} :
      Call(r, "replace", pos, str, Len(str))

Undo == \E r \in {editor_undo(ed)} : Call(r, "undo", 0, <<>>, 0)

Redo == \E r \in {editor_redo(ed)} : Call(r, "redo", 0, <<>>, 0)

Snapshot == Call(editor_snapshot(ed), "snapshot", 0, <<>>, 0)

Save ==
  \E failed \in SaveSteps(ed) \cup {"none"} :
    Call(editor_save(ed, failed),
         IF failed = "none" THEN "save" ELSE "save_failed", 0, <<>>, 0)

Load(file) ==
  /\ ed = editor_load(file)
  /\ ops = 0
  /\ last = [op |-> "load", pos |-> 0, str |-> file, len |-> Len(file),
             doc |-> <<>>, size |-> 0, undo |-> <<>>, redo |-> <<>>,
             current_action |-> NULL, saved |-> FALSE]
  /\ base = <<>>
  /\ post = [doc |-> <<>>, size |-> 0]

\* any caller: every call, in any order
Init == \E file \in Files : Load(file) /\ pc = "any"

Next ==
  /\ ops < MaxOps
  /\ UNCHANGED <<pc, post>>
  /\ \/ Insert
     \/ Delete
     \/ Replace
     \/ Undo
     \/ Redo
     \/ Snapshot
     \/ Save

Spec == Init /\ [][Next]_vars

\* ------------------------------------------------------------ callers
\* A caller that only edits: inserts and deletes, grouped by snapshots.
Edit ==
  /\ ops < MaxEdits
  /\ UNCHANGED <<pc, post>>
  /\ \/ InsertAny
     \/ Delete
     \/ Snapshot

InitEdits == \E file \in Files : Load(file) /\ pc = "edit"

SpecEdits == InitEdits /\ [][Edit]_vars

\* A caller that edits, takes a snapshot, calls undo until it reports an empty
\* stack and then redo until it reports an empty stack.
EditsDone ==
  /\ pc = "edit"
  /\ Snapshot
  /\ pc' = "undo"
  /\ post' = [doc |-> Doc(ed), size |-> ed.size]

UndoAll ==
  /\ pc = "undo"
  /\ Undo
  /\ pc' = IF ed'.ret = 0 THEN "redo" ELSE "undo"
  /\ UNCHANGED post

RedoAll ==
  /\ pc = "redo"
  /\ Redo
  /\ pc' = IF ed'.ret = 0 THEN "done" ELSE "redo"
  /\ UNCHANGED post

NextRoundTrip ==
  \/ pc = "edit" /\ Edit
  \/ EditsDone
  \/ UndoAll
  \/ RedoAll

SpecRoundTrip == InitEdits /\ [][NextRoundTrip]_vars

\* A caller that edits right after an undo: edit, snapshot, edit, undo, edit,
\* undo.
EditAfterUndo ==
  /\ UNCHANGED post
  /\ \/ pc = "edit" /\ (Insert \/ Delete) /\ pc' = "snapshot"
     \/ pc = "snapshot" /\ Snapshot /\ pc' = "edit 2"
     \/ pc = "edit 2" /\ (Insert \/ Delete) /\ pc' = "undo"
     \/ pc = "undo" /\ Undo /\ pc' = "edit 3"
     \/ pc = "edit 3" /\ (Insert \/ Delete) /\ pc' = "undo 2"
     \/ pc = "undo 2" /\ Undo /\ pc' = "end"

SpecEditAfterUndo == InitEdits /\ [][EditAfterUndo]_vars

\* A caller that undoes its first edit, edits again, takes a snapshot and
\* edits once more: the last edit opens a fresh Action.
EditsAroundUndo ==
  /\ UNCHANGED post
  /\ \/ pc = "edit" /\ (InsertAny \/ Delete) /\ pc' = "undo"
     \/ pc = "undo" /\ Undo /\ pc' = "edit 2"
     \/ pc = "edit 2" /\ (InsertAny \/ Delete) /\ pc' = "snapshot"
     \/ pc = "snapshot" /\ Snapshot /\ pc' = "edit 3"
     \/ pc = "edit 3" /\ (InsertAny \/ Delete) /\ pc' = "end"

SpecEditsAroundUndo == InitEdits /\ [][EditsAroundUndo]_vars

\* ---------------------------------------------------------------------------
\* Properties
\* ---------------------------------------------------------------------------

\* the bytes editor_load put into the first buffer
LoadedDoc == SubSeq(ed.mem, 1, ed.buf.size)

\* doc with str spliced in after its first pos bytes
Expect(doc, pos, str) ==
  SubSeq(doc, 1, pos) \o str \o SubSeq(doc, pos + 1, Len(doc))

\* doc without the len bytes that follow its first pos bytes
Cut(doc, pos, len) ==
  SubSeq(doc, 1, pos) \o SubSeq(doc, pos + len + 1, Len(doc))

RECURSIVE SumLen(_)
SumLen(calls) ==
  IF calls = <<>> THEN 0 ELSE Head(calls).len + SumLen(Tail(calls))

\* the chunks a sink that always answers true receives from position 0
IterateAll(e) == editor_iterate(e, 0, Len(e.pieces))

Edits == {"insert", "delete", "replace"}

\* C1: after editor_insert(pos, str) with pos inside the recorded size and str
\* non-empty, the call returns true and the document is the old document with
\* str spliced in at pos.
C1_InsertContract ==
  (last.op = "insert" /\ last.str # <<>> /\ ~SizeGT(last.pos, last.size))
    => /\ ed.fault = "none"
       /\ ed.ret = 1
       /\ Doc(ed) = Expect(last.doc, last.pos, last.str)

\* C2: after editor_delete(pos, len) with len > 0 and pos + len inside the
\* recorded size, the call returns true and the document is the old document
\* without those len bytes.
C2_DeleteContract ==
  (last.op = "delete" /\ last.len > 0 /\ ~SizeGT(last.pos + last.len, last.size))
    => /\ ed.fault = "none"
       /\ ed.ret = 1
       /\ Doc(ed) = Cut(last.doc, last.pos, last.len)

\* C3: after edits, a snapshot and undo repeated until it reports false, the
\* document and the recorded size are those of the loaded file.
C3_UndoAll ==
  (pc = "redo" /\ last.op = "undo")
    => /\ ed.fault = "none"
       /\ Doc(ed) = LoadedDoc
       /\ ed.size = ed.buf.size

\* C3 witness: the undo loop has finished, it has reversed an Action with more
\* than one Change, and the edits had changed the document.
C3_Witness ==
  /\ pc = "redo" /\ last.op = "undo" /\ ed.ret = 0
  /\ \E a \in Range(ed.redo) :
       /\ Len(ed.actions[a].change) >= 2
       /\ \A i \in DOMAIN ed.actions[a].change :
            ed.actions[a].change[i].old.len + ed.actions[a].change[i].new.len > 0
  /\ LoadedDoc # <<>>
  /\ post.doc # LoadedDoc
  /\ Doc(ed) = LoadedDoc

\* C4: after the undo loop, redo repeated until it reports false brings back
\* the document and size the edits had produced.
C4_RedoAll ==
  (pc = "done")
    => /\ ed.fault = "none"
       /\ Doc(ed) = post.doc
       /\ ed.size = post.size

\* C5: the redo stack is empty after every insert, delete or replace that
\* returned true.
C5_RedoEmptyAfterEdit ==
  (last.op \in Edits /\ ed.fault = "none" /\ ed.ret = 1
     /\ (last.op = "delete" => last.len > 0)
     /\ (last.op # "delete" => last.str # <<>>))
    => ed.redo = <<>>

\* C6: once a save has succeeded, the modified? query answers true after any
\* later edit that returned true.
C6_ModifiedAfterEdit ==
  (last.saved /\ last.op \in Edits /\ ed.fault = "none" /\ ed.ret = 1
     /\ Doc(ed) # last.doc)
    => editor_modified(ed)

\* C7: under inserts, deletes and snapshots only, the recorded size is the
\* sum of the chunk lengths a full iterate from position 0 delivers.
C7_SizeIsIterateSum ==
  /\ ed.fault = "none"
  /\ ed.size = SumLen(IterateAll(ed))

\* C7 witness: an insert has split a piece, a delete has removed bytes, and
\* the iterate delivers at least three chunks.
C7_Witness ==
  /\ last.op = "delete" /\ last.len > 0 /\ ed.ret = 1
  /\ Cardinality({i \in DOMAIN IterateAll(ed) : IterateAll(ed)[i].len > 0}) >= 3
  /\ ed.size = SumLen(IterateAll(ed))

\* C8: in every reachable state, editor_insert(pos, str) followed by
\* editor_delete(pos, Len(str)) leaves the document and the recorded size as
\* they were.
C8_InsertDeleteIdentity ==
  (ed.fault = "none")
    => \A pos \in Positions(ed), str \in Texts, a \in Addrs(ed) :
         \E r \in {editor_delete(editor_insert(ed, pos, str, a),
                                 pos, Len(str), a)} :
           /\ r.fault = "none"
           /\ Doc(r) = Doc(ed)
           /\ r.size = ed.size

\* C9: a replace issued right after a snapshot, at a position before the end
\* of the document, that returns true puts two Changes, its delete and its
\* insert, into one new Action, and one undo restores the document.
C9_ReplaceOneAction ==
  (last.op = "snapshot" /\ ed.fault = "none")
    => \A pos \in Positions(ed), str \in Texts, a \in Addrs(ed) :
         \E r \in {editor_replace(ed, pos, str, a)} :
           (SizeGT(ed.size, pos) /\ r.fault = "none" /\ r.ret = 1)
             => /\ Len(r.undo) = Len(ed.undo) + 1
                /\ Len(r.actions[Head(r.undo)].change) = 2
                /\ \E u \in {editor_undo(r)} :
                     /\ u.fault = "none"
                     /\ u.ret = 1
                     /\ Doc(u) = Doc(ed)

\* C10: an undo that returns true leaves the document as it was when the
\* Action it took from the undo stack was opened; on an empty undo stack undo
\* returns false and changes nothing.
C10_UndoLatestAction ==
  /\ (last.op = "undo" /\ ed.fault = "none" /\ ed.ret = 1)
       => Doc(ed) = base[Head(last.undo)]
  /\ (last.op = "undo" /\ last.undo = <<>>)
       => /\ ed.fault = "none"
          /\ ed.ret = 0
          /\ Doc(ed) = last.doc
          /\ ed.size = last.size
          /\ ed.redo = last.redo

\* the pieces of the logical sequence with their fields, and which are freed
Sequence(e) ==
  [i \in DOMAIN Chain(e) |->
     [piece |-> Chain(e)[i], fields |-> e.pieces[Chain(e)[i]],
      freed |-> Chain(e)[i] \in e.freed]]

\* the lengths a caller may pass to editor_delete at pos: up to one byte past
\* the end of the document
Lengths(e, pos) == 0 .. (Len(Doc(e)) - pos + 1)

\* C11: an insert or delete that returns false leaves the pieces of the
\* logical sequence and the size as they were; a delete with len > 0 and
\* pos + len > size returns false and leaves the whole editor, its Actions
\* and both stacks included, as it was.
C11_FailedEditChangesNothing ==
  (ed.fault = "none")
    => \A pos \in Positions(ed), a \in Addrs(ed) :
         /\ \A str \in Texts, f \in EnomemOfInsert(ed) :
              \E r \in {insert_enomem(ed, pos, str, a, f)} :
                (r.fault = "none" /\ r.ret = 0)
                  => Sequence(r) = Sequence(ed) /\ r.size = ed.size
         /\ \A len \in Lengths(ed, pos), f \in EnomemOfDelete(ed) :
              \E r \in {delete_enomem(ed, pos, len, a, f)} :
                (r.fault = "none" /\ r.ret = 0)
                  => Sequence(r) = Sequence(ed) /\ r.size = ed.size
         /\ \A len \in Lengths(ed, pos) :
              (len > 0 /\ SizeGT(pos + len, ed.size))
                => editor_delete(ed, pos, len, a) = [ed EXCEPT !.ret = 0]

\* C12: a save whose system calls all succeed returns 0 and closes the
\* descriptor once; a save in which a system call fails returns another value.
C12_SaveReturnsZero ==
  /\ (last.op = "save")
       => /\ ed.ret = 0
          /\ Cardinality({i \in DOMAIN save_calls(ed, "none") :
                            save_calls(ed, "none")[i] = "close"}) = 1
  /\ (last.op = "save_failed") => ed.ret # 0

RECURSIVE SumPieces(_, _)
SumPieces(P, ps) ==
  IF ps = <<>> THEN 0 ELSE P[Head(ps)].len + SumPieces(P, Tail(ps))

\* the sum of the lengths of the pieces reached forward from begin
ChainLen(e) == SumPieces(e.pieces, Chain(e))

\* C13: after any sequence of insert, delete, replace, undo, redo and snapshot
\* calls the size field is the sum of the lengths of the pieces reached by
\* forward traversal from begin to end.
C13_SizeIsChainLen ==
  (ed.fault = "none") => ed.size = ChainLen(ed)

\* C14: after an edit that returned true and changed the document, whatever
\* preceded it, the open Action is the top of the undo stack and no Action is
\* left on the redo stack.
C14_OpenActionIsUndoTop ==
  (last.op \in Edits /\ ed.fault = "none" /\ ed.ret = 1 /\ Doc(ed) # last.doc)
    => /\ ed.current_action # NULL
       /\ ed.current_action = Top(ed.undo)
       /\ ed.current_action \notin Range(ed.redo)
       /\ ed.redo = <<>>

\* C15: after any sequence of operations no piece reached by traversal from
\* begin to end has been freed.
C15_NoFreedPieceInSequence ==
  (ed.fault = "none") => Range(Chain(ed)) \cap ed.freed = {}

\* the pieces reached from end by following prev
BackChain(e) == BackFrom(e.pieces, End, Len(e.pieces))

C17_DoublyLinked ==
  (ed.fault = "none")
    => /\ \A p \in Range(Chain(ed)) \ {End} :
            /\ ed.pieces[p].next # NULL
            /\ ed.pieces[ed.pieces[p].next].prev = p
       /\ BackChain(ed) = [i \in DOMAIN Chain(ed) |->
                             Chain(ed)[Len(Chain(ed)) + 1 - i]]

\* the pieces the loop of piece_get examines: those reached from begin that
\* have a successor (begin itself included, end not)
Examined(e) == SelectSeq(Chain(e), LAMBDA p : e.pieces[p].next # NULL)

\* the running byte count cur when the i-th piece of ps is examined
Cur(e, ps, i) == SumPieces(e.pieces, SubSeq(ps, 1, i - 1))

\* the indexes of the pieces of ps that hold pos: cur <= pos <= cur + len
Holding(e, ps, pos) ==
  {i \in DOMAIN ps : /\ Cur(e, ps, i) <= pos
                     /\ pos <= Cur(e, ps, i) + e.pieces[ps[i]].len}

\* loc is the first piece of ps that holds pos, with off = pos - cur
IsFirstHolding(e, ps, pos, loc) ==
  \E i \in Holding(e, ps, pos) :
    /\ \A j \in Holding(e, ps, pos) : i <= j
    /\ loc.piece = ps[i]
    /\ loc.off = pos - Cur(e, ps, i)

\* C18 (as stated): for every pos in [0, size] piece_get returns the first
\* piece, in the traversal from begin.next, that holds pos.
C18_LocateFromFirstPiece ==
  (ed.fault = "none")
    => \A pos \in Positions(ed) :
         Holding(ed, Tail(Examined(ed)), pos) # {}
           => IsFirstHolding(ed, Tail(Examined(ed)), pos, piece_get(ed, pos))

\* C18 (amended): for every pos in [0, size] piece_get returns the first
\* piece, in the traversal from the sentinel begin, that holds pos, with
\* off = pos - cur: begin with off 0 for pos = 0, the earlier piece with
\* off = len at a boundary between pieces; it returns no piece when no piece
\* before end holds pos, and the last data piece with off = len when pos > 0
\* is the sum of the piece lengths.  (For lists that end at end and searches
\* that read no freed piece.)
C18_LocateFromBegin ==
  (ed.fault = "none" /\ End \in Range(Chain(ed)))
    => \A pos \in Positions(ed) :
         \E loc \in {piece_get(ed, pos)} :
           (loc.seen \cap ed.freed = {})
             => /\ Holding(ed, Examined(ed), pos) # {}
                     => IsFirstHolding(ed, Examined(ed), pos, loc)
                /\ Holding(ed, Examined(ed), pos) = {} => loc.piece = NULL
                /\ pos = 0 => loc.piece = Begin /\ loc.off = 0
                /\ (pos > 0 /\ pos = ChainLen(ed))
                     => /\ loc.piece = Examined(ed)[Len(Examined(ed))]
                        /\ loc.off = ed.pieces[loc.piece].len

\* C18 witness: an insert has just located its position, and the document
\* has a boundary between two data pieces at which piece_get answers with the
\* earlier piece and off = its length.
C18_Witness ==
  /\ last.op = "insert" /\ ed.fault = "none" /\ ed.ret = 1
  /\ \E pos \in Positions(ed) :
       /\ Cardinality(Holding(ed, Tail(Examined(ed)), pos)) >= 2
       /\ piece_get(ed, pos).piece \notin {NULL, HANG, Begin}
       /\ piece_get(ed, pos).off = ed.pieces[piece_get(ed, pos).piece].len
       /\ piece_get(ed, pos).off > 0

\* the bytes of the chunks handed to the callback, one after the other
RECURSIVE Chunks(_, _)
Chunks(e, calls) ==
  IF calls = <<>> THEN <<>>
  ELSE (IF Head(calls).len = 0 THEN <<>>
        ELSE SubSeq(e.mem, Head(calls).content,
                    Head(calls).content + Head(calls).len - 1))
       \o Chunks(e, Tail(calls))

\* each call receives as position the start position plus the lengths of the
\* chunks handed over before it
OffsetsRun(calls, pos) ==
  \A i \in DOMAIN calls : calls[i].pos = pos + SumLen(SubSeq(calls, 1, i - 1))

\* C19: for every pos in [0, size] an iterate whose callback always returns
\* true delivers the document bytes from pos on, each call with the offset of
\* its first byte; after the callback has returned false it is not called
\* again; for pos > size it is never called.
C19_IterateDeliversSuffix ==
  (ed.fault = "none" /\ ed.size >= 0)
    => /\ \A pos \in 0 .. ed.size :
            \E calls \in {editor_iterate(ed, pos, Len(ed.pieces))} :
              /\ Chunks(ed, calls) = SubSeq(Doc(ed), pos + 1, Len(Doc(ed)))
              /\ OffsetsRun(calls, pos)
              /\ \A k \in 0 .. Len(calls) :
                   Len(editor_iterate(ed, pos, k)) <= k + 1
       /\ editor_iterate(ed, ed.size + 1, Len(ed.pieces)) = <<>>

\* str written over the bytes of doc that follow its first pos bytes
Overwrite(doc, pos, str) ==
  SubSeq(doc, 1, pos) \o str \o SubSeq(doc, pos + Len(str) + 1, Len(doc))

\* C20: after a replace at a position before the end of the document that
\* returned true, the size is what it was and the document is the former
\* document with the bytes of str written over [pos, pos + Len(str)), also
\* when pos + Len(str) exceeds the size.
C20_ReplaceOverwrites ==
  (last.op = "replace" /\ SizeGT(last.size, last.pos)
     /\ ed.fault = "none" /\ ed.ret = 1)
    => /\ ed.size = last.size
       /\ Doc(ed) = Overwrite(last.doc, last.pos, last.str)

====
